---- MODULE Spec2Model ----
(***************************************************************************)
(* Model of the mail relay (Othi-Raja/mail-api).  The repository holds two *)
(* deployments of the same Express application:                            *)
(*   "index"  src/index.js      limiter mounted on /send-mail only,        *)
(*                              allowedPorts = [465, 587, 2525, 3000],     *)
(*                              secure taken from the request              *)
(*   "api"    src/api/index.js  limiter mounted on every route,            *)
(*                              allowedPorts = [465, 587, 2525],           *)
(*                              secure: port === 465                       *)
(* variant says which of the two files is running.                         *)
(*                                                                         *)
(* A request is served by one slot (one invocation of a route callback).   *)
(* Everything a callback does up to its first await is one step; the two   *)
(* awaits of the /send-mail callback (transporter.verify(), transporter.   *)
(* sendMail()) are the points where other requests interleave.             *)
(***************************************************************************)
EXTENDS Integers, Sequences, FiniteSets, TLC

VARIABLES variant, hits, admitted, slots

vars == <<variant, hits, admitted, slots>>

(***************************************************************************)
(* Bounds of the model.                                                    *)
(***************************************************************************)
\* longest from/to string of the exhaustive address sets
MaxEmailLen == 5
\* requests one client sends per window under Spec and SpecDouble
MaxBurst == 2
\* requests one client sends per window under SpecTraffic (beyond max)
MaxHits == 22
\* GET / requests of one client counted inside the limit under SpecTraffic
MaxGets == 1

Variants == {"index", "api"}
Clients == {"c1", "c2"}
Slots == {"s1", "s2"}

(***************************************************************************)
(* JavaScript values of the request body.                                  *)
(* Text fields that are only tested for truthiness are TLA+ strings, with  *)
(* Undefined for a missing property.  mail.from and mail.to are matched    *)
(* against a regular expression, so they are sequences of characters; a    *)
(* missing one is UndefinedSeq.  The characters are "a" (any character     *)
(* that is neither white space, "@" nor "."), "@", "." and " ".            *)
(***************************************************************************)
Undefined == "undefined"
UndefinedSeq == <<"undefined">>
Chars == {"a", "@", ".", " "}

\* !x for a text field
Falsy(x) == x = Undefined \/ x = ""
\* !x for mail.from / mail.to
FalsySeq(x) == x = UndefinedSeq \/ x = <<>>

\* String(x), as RegExp.prototype.test coerces its argument
ToStr(x) ==
  IF x = UndefinedSeq
    THEN <<"u", "n", "d", "e", "f", "i", "n", "e", "d">>
    ELSE x

\* the character class [^\s@]
NotSpaceAt(ch) == ch # " " /\ ch # "@"

\* every character of s[lo..hi] is in [^\s@], and there is at least one
Plus(s, lo, hi) == lo <= hi /\ \A k \in lo..hi : NotSpaceAt(s[k])

isValidEmailNoDot(email) ==
  LET s == ToStr(email) IN
  \E i \in 1..Len(s) : s[i] = "@" /\ Plus(s, 1, i - 1) /\ Plus(s, i + 1, Len(s))

\* /^[^\s@]+@[^\s@]+\.[^\s@]+$/.test(email)
isValidEmail(email) ==
  LET s == ToStr(email) IN
  \E i \in 1..Len(s) : \E j \in 1..Len(s) :
     /\ s[i] = "@"
     /\ s[j] = "."
     /\ Plus(s, 1, i - 1)
     /\ Plus(s, i + 1, j - 1)
     /\ Plus(s, j + 1, Len(s))

\* const allowedPorts = [...]
allowedPorts(v) == IF v = "index" THEN {465, 587, 2525, 3000} ELSE {465, 587, 2525}

\* rateLimit({ max: 20 })
max == 20

\* app.use("/send-mail", limiter) against app.use(limiter)
LimiterCovers(v, route) == v = "api" \/ route = "POST /send-mail"

LimitedOffByOne(totalHits) == totalHits > max + 1

\* the limiter answers 429 once the client's count in the window exceeds max
Limited(totalHits) == totalHits > max

(***************************************************************************)
(* Responses.                                                              *)
(***************************************************************************)
Absent == "absent"
NoResponse == [status |-> 0, type |-> "none", success |-> Absent, message |-> Absent, error |-> Absent]

JsonError(code, text) ==
  [status |-> code, type |-> "json", success |-> Absent, message |-> Absent, error |-> text]

\* message: { error: "Too many requests" }
TooManyRequests == JsonError(429, "Too many requests")

\* res.send(`<!DOCTYPE html> ...`)
DocPage == [status |-> 200, type |-> "html", success |-> Absent, message |-> Absent, error |-> Absent]

\* res.json({ success: true, message: "Email sent successfully" })
SuccessResponse ==
  [status |-> 200, type |-> "json", success |-> "true",
   message |-> "Email sent successfully", error |-> Absent]

CatchResponseEcho(err) ==
  [status |-> 500, type |-> "json", success |-> "false", message |-> Absent, error |-> err]

\* catch (error) { res.status(401).json({ success: false, error: "..." }) }
CatchResponse(err) ==
  [status |-> 401, type |-> "json", success |-> "false", message |-> Absent,
   error |-> "SMTP authentication failed or email rejected"]

(***************************************************************************)
(* Requests.  req.body is { smtp, mail }; hasSmtp / hasMail say whether    *)
(* the property is there (a missing one destructures to undefined).        *)
(***************************************************************************)
NoSmtp == [host |-> Undefined, port |-> 0, secure |-> Undefined, user |-> Undefined, pass |-> Undefined]
NoMail == [from |-> UndefinedSeq, to |-> UndefinedSeq, subject |-> Undefined, body |-> Undefined]
NoRequest == [hasSmtp |-> FALSE, hasMail |-> FALSE, smtp |-> NoSmtp, mail |-> NoMail]

GoodAddress == <<"a", "@", "a", ".", "a">>
OtherAddress == <<"a", "a", "@", "a", ".", "a">>

\* port 0 stands for a missing port: !port holds of both
SmtpSamples ==
  [host : {Undefined, "smtp.example.com"},
   port : {0, 25, 465, 587, 2525, 3000},
   secure : {Undefined, "true", "false"},
   user : {"", "a@example.com"},
   pass : {Undefined, "x"}]

MailSamples ==
  [from : {UndefinedSeq, <<"a", "a", ".", "a">>, GoodAddress},
   to : {<<>>, <<"a", "@", "a", "a">>, OtherAddress},
   subject : {"", "Hi"},
   body : {Undefined, "Hello"}]

GoodSmtp == [host |-> "smtp.example.com", port |-> 587, secure |-> Undefined,
             user |-> "a@example.com", pass |-> "x"]
GoodMail == [from |-> GoodAddress, to |-> OtherAddress, subject |-> "Hi", body |-> "Hello"]
GoodRequest == [hasSmtp |-> TRUE, hasMail |-> TRUE, smtp |-> GoodSmtp, mail |-> GoodMail]

\* every string over Chars of at most MaxEmailLen characters
Addresses == UNION {[1..n -> Chars] : n \in 0..MaxEmailLen}

\* the request bodies of Spec and SpecDouble
Requests ==
  [hasSmtp : {TRUE}, hasMail : {TRUE}, smtp : SmtpSamples, mail : MailSamples]
  \cup [hasSmtp : {FALSE}, hasMail : {TRUE}, smtp : {NoSmtp}, mail : MailSamples]
  \cup [hasSmtp : {TRUE}, hasMail : {FALSE}, smtp : SmtpSamples, mail : {NoMail}]
  \cup {NoRequest}
  \cup {[GoodRequest EXCEPT !.mail.from = e] : e \in Addresses}
  \cup {[GoodRequest EXCEPT !.mail.to = e] : e \in Addresses}

\* the request bodies of SpecTraffic
TrafficRequests ==
  {GoodRequest, [GoodRequest EXCEPT !.smtp.port = 25]}

(***************************************************************************)
(* Validation of the /send-mail callback: "ok", or the error of the first  *)
(* check that fails.                                                       *)
(***************************************************************************)
ValidateNoStructure(v, r) ==
  LET s == r.smtp
      m == r.mail
  IN  IF Falsy(s.host) \/ s.port = 0 \/ Falsy(s.user) \/ Falsy(s.pass)
        THEN "Incomplete SMTP credentials"
      ELSE IF s.port \notin allowedPorts(v)
        THEN "SMTP port not allowed"
      ELSE IF v = "index" /\ (FalsySeq(m.from) \/ FalsySeq(m.to) \/ Falsy(m.subject) \/ Falsy(m.body))
        THEN "Missing email fields"
      ELSE IF ~isValidEmail(m.from) \/ ~isValidEmail(m.to)
        THEN "Invalid email format"
      ELSE "ok"

Validate(v, r) ==
  LET s == r.smtp
      m == r.mail
  IN  IF ~r.hasSmtp \/ ~r.hasMail
        THEN "smtp and mail are required"
      ELSE IF Falsy(s.host) \/ s.port = 0 \/ Falsy(s.user) \/ Falsy(s.pass)
        THEN "Incomplete SMTP credentials"
      ELSE IF s.port \notin allowedPorts(v)
        THEN "SMTP port not allowed"
      ELSE IF v = "index" /\ (FalsySeq(m.from) \/ FalsySeq(m.to) \/ Falsy(m.subject) \/ Falsy(m.body))
        THEN "Missing email fields"
      ELSE IF ~isValidEmail(m.from) \/ ~isValidEmail(m.to)
        THEN "Invalid email format"
      ELSE "ok"

(***************************************************************************)
(* The transporter: the options handed to nodemailer.createTransport.      *)
(***************************************************************************)
NoTransport ==
  [created |-> FALSE, host |-> Undefined, port |-> 0, secure |-> Undefined,
   user |-> Undefined, pass |-> Undefined, rejectUnauthorized |-> FALSE]

\* index: secure (the request's own); api: secure: port === 465
TransportOptions(v, r) ==
  [created |-> TRUE, host |-> r.smtp.host, port |-> r.smtp.port,
   secure |-> IF v = "index" THEN r.smtp.secure
              ELSE IF r.smtp.port = 465 THEN "true" ELSE "false",
   user |-> r.smtp.user, pass |-> r.smtp.pass, rejectUnauthorized |-> TRUE]

NoMessage == [from |-> UndefinedSeq, to |-> UndefinedSeq, subject |-> Undefined, text |-> Undefined]

\* sendMail({ from, to, subject, text: body })
Message(r) ==
  [from |-> r.mail.from, to |-> r.mail.to, subject |-> r.mail.subject, text |-> r.mail.body]

\* what the SMTP layer can raise
CreateErrors == {"ECONFIG"}
VerifyErrors == {"EAUTH", "ECONNECTION", "ETIMEDOUT"}
SendErrors == {"EENVELOPE", "EMESSAGE"}

(***************************************************************************)
(* Slots.                                                                  *)
(***************************************************************************)
IdleSlot ==
  [pc |-> "idle", route |-> "none", req |-> NoRequest, transport |-> NoTransport,
   creates |-> 0, verifies |-> 0, sends |-> 0, verifyResult |-> "none", sendResult |-> "none",
   message |-> NoMessage, caught |-> "none", resp |-> NoResponse]

\* a request answered without entering the try block
Answered(route, r, response) ==
  [IdleSlot EXCEPT !.pc = "done", !.route = route, !.req = r, !.resp = response]

Init ==
  /\ variant \in Variants
  /\ hits = [c \in Clients |-> 0]
  /\ admitted = [c \in Clients |-> 0]
  /\ slots = [s \in Slots |-> IdleSlot]

(***************************************************************************)
(* The /send-mail callback up to its first await: validation, then         *)
(* createTransport and the call of transporter.verify().  create is what   *)
(* createTransport does: "ok", or the error it throws.                     *)
(***************************************************************************)
SendMailHandler(v, r, create) ==
  LET e == Validate(v, r) IN
  IF e # "ok"
    THEN Answered("POST /send-mail", r, JsonError(400, e))
  ELSE IF create # "ok"
    THEN [Answered("POST /send-mail", r, CatchResponse(create)) EXCEPT
            !.creates = 1, !.caught = create]
  ELSE [IdleSlot EXCEPT !.pc = "verifying", !.route = "POST /send-mail", !.req = r,
                        !.transport = TransportOptions(v, r), !.creates = 1,
                        !.verifies = 1, !.verifyResult = "pending"]

\* POST /send-mail from client c, served in slot s: the limiter, then the callback
PostSendMail(c, s, r, create) ==
  /\ slots[s].pc = "idle"
  /\ hits' = [hits EXCEPT ![c] = @ + 1]
  /\ IF Limited(hits'[c])
       THEN /\ admitted' = admitted
            /\ slots' = [slots EXCEPT ![s] = Answered("POST /send-mail", r, TooManyRequests)]
       ELSE /\ admitted' = [admitted EXCEPT ![c] = @ + 1]
            /\ slots' = [slots EXCEPT ![s] = SendMailHandler(variant, r, create)]
  /\ UNCHANGED variant

\* GET / from client c, served in slot s
GetRoot(c, s) ==
  /\ slots[s].pc = "idle"
  /\ IF LimiterCovers(variant, "GET /")
       THEN /\ hits' = [hits EXCEPT ![c] = @ + 1]
            /\ slots' = [slots EXCEPT ![s] =
                 Answered("GET /", NoRequest,
                          IF Limited(hits'[c]) THEN TooManyRequests ELSE DocPage)]
       ELSE /\ hits' = hits
            /\ slots' = [slots EXCEPT ![s] = Answered("GET /", NoRequest, DocPage)]
  /\ UNCHANGED <<variant, admitted>>

VerifyDoneRetry(s, outcome) ==
  /\ slots[s].pc = "verifying"
  /\ slots' = [slots EXCEPT ![s] =
       IF outcome = "ok"
         THEN [@ EXCEPT !.pc = "sending", !.verifyResult = "ok", !.sends = 1,
                        !.sendResult = "pending", !.message = Message(slots[s].req)]
         ELSE [@ EXCEPT !.verifies = @ + 1]]
  /\ UNCHANGED <<variant, hits, admitted>>

\* await transporter.verify() settles; on success sendMail is called
VerifyDone(s, outcome) ==
  /\ slots[s].pc = "verifying"
  /\ slots' = [slots EXCEPT ![s] =
       IF outcome = "ok"
         THEN [@ EXCEPT !.pc = "sending", !.verifyResult = "ok", !.sends = 1,
                        !.sendResult = "pending", !.message = Message(slots[s].req)]
         ELSE [@ EXCEPT !.pc = "done", !.verifyResult = outcome, !.caught = outcome,
                        !.resp = CatchResponse(outcome)]]
  /\ UNCHANGED <<variant, hits, admitted>>

SendDoneAlwaysOk(s, outcome) ==
  /\ slots[s].pc = "sending"
  /\ slots' = [slots EXCEPT ![s] =
       [@ EXCEPT !.pc = "done", !.sendResult = outcome, !.resp = SuccessResponse]]
  /\ UNCHANGED <<variant, hits, admitted>>

\* await transporter.sendMail() settles
SendDone(s, outcome) ==
  /\ slots[s].pc = "sending"
  /\ slots' = [slots EXCEPT ![s] =
       IF outcome = "ok"
         THEN [@ EXCEPT !.pc = "done", !.sendResult = "ok", !.resp = SuccessResponse]
         ELSE [@ EXCEPT !.pc = "done", !.sendResult = outcome, !.caught = outcome,
                        !.resp = CatchResponse(outcome)]]
  /\ UNCHANGED <<variant, hits, admitted>>

\* the callback has returned its response; the slot serves the next request
Respond(s) ==
  /\ slots[s].pc = "done"
  /\ slots' = [slots EXCEPT ![s] = IdleSlot]
  /\ UNCHANGED <<variant, hits, admitted>>

\* windowMs has passed for client c: its count starts again
WindowExpire(c) ==
  /\ hits[c] > 0
  /\ hits' = [hits EXCEPT ![c] = 0]
  /\ admitted' = [admitted EXCEPT ![c] = 0]
  /\ UNCHANGED <<variant, slots>>

(***************************************************************************)
(* Specifications.                                                         *)
(*   Spec        one request at a time, every request body of Requests,    *)
(*               nodemailer's createTransport (it builds the transporter   *)
(*               and opens no connection: it does not throw)               *)
(*   SpecDouble  as Spec, with an SMTP double whose createTransport may    *)
(*               throw as well                                             *)
(*   SpecTraffic concurrent requests of two clients past the limit         *)
(***************************************************************************)
HandlerSlots == {"s1"}

Next ==
  \E c \in Clients, s \in HandlerSlots :
    \/ slots[s].pc = "idle" /\ hits[c] < MaxBurst
         /\ \E r \in Requests : PostSendMail(c, s, r, "ok")
    \/ hits[c] < MaxBurst /\ GetRoot(c, s)
    \/ \E o \in {"ok"} \cup VerifyErrors : VerifyDone(s, o)
    \/ \E o \in {"ok"} \cup SendErrors : SendDone(s, o)
    \/ Respond(s)
    \/ WindowExpire(c)

Spec == Init /\ [][Next]_vars

NextDouble ==
  \E c \in Clients, s \in HandlerSlots :
    \/ slots[s].pc = "idle" /\ hits[c] < MaxBurst
         /\ \E r \in Requests : \E k \in {"ok"} \cup CreateErrors : PostSendMail(c, s, r, k)
    \/ hits[c] < MaxBurst /\ GetRoot(c, s)
    \/ \E o \in {"ok"} \cup VerifyErrors : VerifyDone(s, o)
    \/ \E o \in {"ok"} \cup SendErrors : SendDone(s, o)
    \/ Respond(s)
    \/ WindowExpire(c)

SpecDouble == Init /\ [][NextDouble]_vars

Min(a, b) == IF a < b THEN a ELSE b

NextTraffic ==
  \E c \in Clients, s \in Slots :
    \/ hits[c] < MaxHits /\ \E r \in TrafficRequests : PostSendMail(c, s, r, "ok")
    \/ /\ hits[c] < MaxHits
       /\ Min(hits[c], max) - admitted[c] < MaxGets \/ hits[c] >= max
       /\ GetRoot(c, s)
    \/ \E o \in {"ok", "EAUTH"} : VerifyDone(s, o)
    \/ \E o \in {"ok", "EENVELOPE"} : SendDone(s, o)
    \/ Respond(s)
    \/ WindowExpire(c)

SpecTraffic == Init /\ [][NextTraffic]_vars

(***************************************************************************)
(* Vocabulary of the claims.                                               *)
(***************************************************************************)
\* slot s holds a POST /send-mail request that the limiter passed to the callback
InCallback(s) ==
  /\ slots[s].pc # "idle"
  /\ slots[s].route = "POST /send-mail"
  /\ slots[s].resp.status # 429

\* no part of an SMTP session was run for the request of slot s
NoSession(s) ==
  /\ slots[s].creates = 0
  /\ ~slots[s].transport.created
  /\ slots[s].verifies = 0
  /\ slots[s].sends = 0

\* the request of slot s got past the checks that precede the port check
ReachesPortCheck(s) ==
  LET r == slots[s].req IN
  /\ r.hasSmtp /\ r.hasMail
  /\ ~Falsy(r.smtp.host) /\ r.smtp.port # 0 /\ ~Falsy(r.smtp.user) /\ ~Falsy(r.smtp.pass)

\* C1: a request handled by the callback whose port is not one of 465, 587,
\* 2525 (and which the earlier checks let through to the port check) is
\* answered 400 "SMTP port not allowed" and runs no part of an SMTP session.
C1_PortNotAllowed ==
  \A s \in Slots :
    (InCallback(s) /\ ReachesPortCheck(s) /\ slots[s].req.smtp.port \notin {465, 587, 2525})
      => /\ slots[s].resp = [status |-> 400, type |-> "json", success |-> Absent,
                             message |-> Absent, error |-> "SMTP port not allowed"]
         /\ NoSession(s)

\* any SMTP failure raised for the request of slot s
Failed(s) ==
  \/ slots[s].caught # "none"
  \/ slots[s].verifyResult \in VerifyErrors
  \/ slots[s].sendResult \in SendErrors

\* C2: a request that passed validation and whose SMTP session failed at
\* createTransport, verify or sendMail is answered 401 with the one fixed
\* body, whatever the error was.
C2_FailureIs401 ==
  \A s \in Slots :
    (InCallback(s) /\ Failed(s))
      => /\ slots[s].pc = "done"
         /\ slots[s].resp = [status |-> 401, type |-> "json", success |-> "false",
                             message |-> Absent,
                             error |-> "SMTP authentication failed or email rejected"]

\* a request whose sendMail failed after a successful verify has been answered
C2_Witness ==
  \E s \in Slots :
    /\ InCallback(s) /\ slots[s].pc = "done"
    /\ slots[s].verifyResult = "ok" /\ slots[s].sendResult = "EMESSAGE"
    /\ slots[s].resp.status = 401

\* all eight required fields of the request of slot s are there and non-empty
AllEightFields(s) ==
  LET r == slots[s].req IN
  /\ r.hasSmtp /\ r.hasMail
  /\ ~Falsy(r.smtp.host) /\ r.smtp.port # 0 /\ ~Falsy(r.smtp.user) /\ ~Falsy(r.smtp.pass)
  /\ ~FalsySeq(r.mail.from) /\ ~FalsySeq(r.mail.to)
  /\ ~Falsy(r.mail.subject) /\ ~Falsy(r.mail.body)

\* C3: only a request with all eight required fields present and non-empty
\* opens an SMTP session; one with a field missing or empty is answered 400
\* and runs neither verify nor sendMail.
C3_SessionNeedsAllFields ==
  \A s \in Slots :
    (InCallback(s) /\ ~AllEightFields(s))
      => /\ NoSession(s)
         /\ slots[s].pc = "done"
         /\ slots[s].resp.status = 400

\* C5: the transporter's implicit-TLS setting is the request's secure flag
\* when the request carries one and (port = 465) when it carries none, and
\* certificate validation is on.  (An option left undefined is the setting
\* nodemailer derives from the port.)
C5_SecureSetting ==
  \A s \in Slots :
    slots[s].transport.created =>
      LET flag == slots[s].req.smtp.secure
          opt == slots[s].transport.secure
          port == slots[s].transport.port
          implicitTLS == IF opt = Undefined THEN port = 465 ELSE opt = "true"
      IN  /\ slots[s].transport.rejectUnauthorized
          /\ flag # Undefined => (implicitTLS <=> flag = "true")
          /\ flag = Undefined => (implicitTLS <=> port = 465)

\* C6: a request is answered 200 {success: true, message: "Email sent
\* successfully"} exactly when it passed validation and verify and sendMail
\* both succeeded; no 200 is written before sendMail has succeeded.
C6_SuccessIff200 ==
  \A s \in Slots :
    (slots[s].pc # "idle" /\ slots[s].route = "POST /send-mail") =>
      LET sent == /\ Validate(variant, slots[s].req) = "ok"
                  /\ slots[s].verifyResult = "ok"
                  /\ slots[s].sendResult = "ok"
      IN  /\ sent <=> slots[s].resp = [status |-> 200, type |-> "json", success |-> "true",
                                       message |-> "Email sent successfully",
                                       error |-> Absent]
          /\ slots[s].resp.status = 200 => sent

\* a request has been answered 200 after its sendMail succeeded
C6_Witness ==
  \E s \in Slots :
    /\ slots[s].pc = "done" /\ slots[s].route = "POST /send-mail"
    /\ slots[s].sendResult = "ok" /\ slots[s].resp.status = 200

LacksAt(e) == LET x == ToStr(e) IN \A i \in 1..Len(x) : x[i] # "@"

\* the string has an "@" and no "." after its last "@"
LacksDomainDot(e) ==
  LET x == ToStr(e) IN
  \E i \in 1..Len(x) :
    /\ x[i] = "@"
    /\ \A k \in (i + 1)..Len(x) : x[k] # "@" /\ x[k] # "."

BadAddress(e) == LacksAt(e) \/ LacksDomainDot(e)

\* the request of slot s got past every check that precedes the e-mail format check
ReachesFormatCheck(s) ==
  LET r == slots[s].req IN
  /\ ReachesPortCheck(s)
  /\ r.smtp.port \in allowedPorts(variant)
  /\ variant = "index" =>
       (~FalsySeq(r.mail.from) /\ ~FalsySeq(r.mail.to)
        /\ ~Falsy(r.mail.subject) /\ ~Falsy(r.mail.body))

\* C8 as stated: every request whose from or to lacks an "@" or a dot in the
\* domain part is answered 400 "Invalid email format" and runs no SMTP session.
C8_AsStated ==
  \A s \in Slots :
    (InCallback(s) /\ (BadAddress(slots[s].req.mail.from) \/ BadAddress(slots[s].req.mail.to)))
      => /\ slots[s].resp = [status |-> 400, type |-> "json", success |-> Absent,
                             message |-> Absent, error |-> "Invalid email format"]
         /\ NoSession(s)

\* C8, amended: every request whose from or to lacks an "@" or a dot in the
\* domain part is answered 400 and runs no SMTP session; the error is "Invalid
\* email format" when the request passes the checks that come first (smtp and
\* mail present, credentials complete, port allowed and, in src/index.js, the
\* four mail fields non-empty).
C8_InvalidEmailRejected ==
  \A s \in Slots :
    (InCallback(s) /\ (BadAddress(slots[s].req.mail.from) \/ BadAddress(slots[s].req.mail.to)))
      => /\ slots[s].pc = "done"
         /\ slots[s].resp.status = 400
         /\ NoSession(s)
         /\ ReachesFormatCheck(s) =>
              slots[s].resp = [status |-> 400, type |-> "json", success |-> Absent,
                               message |-> Absent, error |-> "Invalid email format"]

\* a request with an "@" in to but no dot after it was answered "Invalid email format"
C8_Witness ==
  \E s \in Slots :
    /\ InCallback(s) /\ ReachesFormatCheck(s)
    /\ ~LacksAt(slots[s].req.mail.to) /\ LacksDomainDot(slots[s].req.mail.to)
    /\ slots[s].resp.error = "Invalid email format"

\* C9: a request handled by the callback whose body has no smtp or no mail is
\* answered 400 "smtp and mail are required" and runs no SMTP session.
C9_StructureRequired ==
  \A s \in Slots :
    (InCallback(s) /\ (~slots[s].req.hasSmtp \/ ~slots[s].req.hasMail))
      => /\ slots[s].pc = "done"
         /\ slots[s].resp = [status |-> 400, type |-> "json", success |-> Absent,
                             message |-> Absent, error |-> "smtp and mail are required"]
         /\ NoSession(s)

\* a request with complete credentials and no mail object was answered 400
C9_Witness ==
  \E s \in Slots :
    /\ InCallback(s) /\ slots[s].req.hasSmtp /\ ~slots[s].req.hasMail
    /\ slots[s].req.smtp = [GoodSmtp EXCEPT !.port = 465]
    /\ slots[s].resp.status = 400

\* C10: GET / is answered 200 with the page and changes no shared state, the
\* clients' rate-limit counts included.
C10_GetHasNoEffect ==
  [][\A s \in Slots :
       (slots[s].pc = "idle" /\ slots'[s].route = "GET /")
         => /\ slots'[s].resp.status = 200
            /\ slots'[s].resp.type = "html"
            /\ hits' = hits
            /\ admitted' = admitted]_vars

\* slot s takes a POST /send-mail request in this step
Arrives(s) == slots[s].pc = "idle" /\ slots'[s].route = "POST /send-mail"

\* C4: within one window the limiter passes at most 20 POST /send-mail
\* requests of a client to the callback, whatever the interleaving; every
\* request counts once; a request arriving after 20 were passed is answered
\* 429 {error: "Too many requests"} and runs no SMTP session.
C4_RateLimit ==
  [][/\ \A c \in Clients : admitted'[c] <= 20
     /\ \A s \in Slots :
          Arrives(s) =>
            \E c \in Clients :
              /\ hits'[c] = hits[c] + 1
              /\ \A d \in Clients \ {c} : hits'[d] = hits[d] /\ admitted'[d] = admitted[d]
              /\ slots'[s].resp.status # 429 => admitted'[c] = admitted[c] + 1
              /\ admitted[c] >= 20 =>
                   /\ slots'[s].pc = "done"
                   /\ slots'[s].resp = [status |-> 429, type |-> "json", success |-> Absent,
                                        message |-> Absent, error |-> "Too many requests"]
                   /\ slots'[s].creates = 0 /\ slots'[s].verifies = 0 /\ slots'[s].sends = 0
                   /\ admitted'[c] = admitted[c]]_vars

\* a client's 20 requests were passed on, a later one was answered 429 while
\* another of its requests is still in flight
C4_Witness ==
  \E c \in Clients : \E s \in Slots : \E u \in Slots \ {s} :
    /\ admitted[c] = 20 /\ hits[c] > 20
    /\ slots[s].route = "POST /send-mail" /\ slots[s].resp.status = 429
    /\ slots[u].pc \in {"verifying", "sending"}
    /\ \A d \in Clients \ {c} : hits[d] = 0

====
